---- MODULE Spec2Model ----
(***************************************************************************)
(* Model of utils/measure/runner/light.py: the light measurement runner.   *)
(* Variation generation, the resume protocol, the CSV writer and the       *)
(* per-variation measurement loop with its nudge and abort handling.       *)
(***************************************************************************)
EXTENDS Integers, Sequences, FiniteSets, TLC

VARIABLES
    fn,                  \* pure-function harness: the function applied last
    arg,                 \* pure-function harness: its arguments
    ret,                 \* pure-function harness: its result
    cfg,                 \* config.* values, answers and light_info of the session
    files,               \* file system: csv path (color mode) -> list of lines, or absent
    pc,                  \* position of the runner
    num_0_readings,      \* LightRunner.num_0_readings
    measurements_to_run, \* run(): list of MeasurementRunInput
    all_variations,      \* run(): all_variations
    left_variations,     \* run(): left_variations
    mi,                  \* run(): index of the measurement being run / prepared
    count,               \* run_color_mode(): index of the variation in the loop
    previous_variation,  \* run_color_mode(): previous_variation
    nudge_count,         \* nudge_and_remeasure(): nudge_count
    csv_writer,          \* run_color_mode(): the open file and its CsvWriter
    light,               \* last state commanded to the light controller
    io,                  \* the outside-visible events of the last step, in order
    asked,               \* whether inquirer.confirm was consulted by the last prepare
    error_log,           \* the _LOGGER.error records of this invocation
    rows_appended,       \* number of write_measurement calls of this invocation
    invocation           \* number of invocations of the measure script so far

pureVars == <<fn, arg, ret>>
runVars == <<cfg, files, pc, num_0_readings, measurements_to_run, all_variations,
             left_variations, mi, count, previous_variation, nudge_count,
             csv_writer, light, io, asked, error_log, rows_appended, invocation>>
vars == <<fn, arg, ret, cfg, files, pc, num_0_readings, measurements_to_run,
          all_variations, left_variations, mi, count, previous_variation,
          nudge_count, csv_writer, light, io, asked, error_log, rows_appended,
          invocation>>

----------------------------------------------------------------------------
(* Program constants *)

CSV_WRITE_BUFFER == 50
MAX_ALLOWED_0_READINGS == 50

None == [cls |-> "None"]

HS == "hs"
COLOR_TEMP == "color_temp"
BRIGHTNESS == "brightness"
ColorModes == {HS, COLOR_TEMP, BRIGHTNESS}

----------------------------------------------------------------------------
(* Variation model *)

Variation(bri) == [cls |-> "Variation", bri |-> bri]
HsVariation(bri, hue, sat) == [cls |-> "HsVariation", bri |-> bri, hue |-> hue, sat |-> sat]
ColorTempVariation(bri, ct) == [cls |-> "ColorTempVariation", bri |-> bri, ct |-> ct]

IntField(n) == [t |-> "int", v |-> n]
FloatField(centi) == [t |-> "float", v |-> centi]
StrField(s) == [t |-> "str", v |-> s]
NoneField == [t |-> "none"]

\* Variation.to_csv_row / HsVariation.to_csv_row / ColorTempVariation.to_csv_row
to_csv_row(variation) ==
    IF variation.cls = "HsVariation"
    THEN <<IntField(variation.bri), IntField(variation.hue), IntField(variation.sat)>>
    ELSE IF variation.cls = "ColorTempVariation"
    THEN <<IntField(variation.bri), IntField(variation.ct)>>
    ELSE <<IntField(variation.bri)>>

\* get_color_mode: isinstance dispatch
get_color_mode(variation) ==
    IF variation.cls = "HsVariation" THEN HS
    ELSE IF variation.cls = "ColorTempVariation" THEN COLOR_TEMP
    ELSE BRIGHTNESS

----------------------------------------------------------------------------
(* Variation space generator *)

RECURSIVE range_loop_le(_, _, _)
range_loop_le(i, end, step) ==
    IF i <= end THEN <<i>> \o range_loop_le(i + step, end, step) ELSE <<end>>

\* the while loop of inclusive_range: yield i while i < end, then yield end
RECURSIVE range_loop(_, _, _)
range_loop(i, end, step) ==
    IF i < end THEN <<i>> \o range_loop(i + step, end, step) ELSE <<end>>

inclusive_range(start, end, step) == range_loop(start, end, step)

\* round() of a non-negative value given in tenths (Python rounds half to even)
PyRound(tenths) ==
    LET q == tenths \div 10
        r == tenths % 10
    IN  IF r < 5 THEN q
        ELSE IF r > 5 THEN q + 1
        ELSE IF q % 2 = 0 THEN q ELSE q + 1

RECURSIVE Concat(_)
Concat(seqs) == IF seqs = <<>> THEN <<>> ELSE Head(seqs) \o Concat(Tail(seqs))

\* variant: the brightness sweep is stepped by HS_BRI_STEPS
brightness_variations_hs_steps(c) ==
    LET bris == inclusive_range(c.MIN_BRIGHTNESS, c.MAX_BRIGHTNESS, c.HS_BRI_STEPS)
    IN  [k \in 1..Len(bris) |-> Variation(bris[k])]

get_brightness_variations(c) ==
    LET bris == inclusive_range(c.MIN_BRIGHTNESS, c.MAX_BRIGHTNESS, c.BRI_BRI_STEPS)
    IN  [k \in 1..Len(bris) |-> Variation(bris[k])]

get_ct_variations(c) ==
    LET min_mired == PyRound(c.min_mired)
        max_mired == PyRound(c.max_mired)
        bris == inclusive_range(c.MIN_BRIGHTNESS, c.MAX_BRIGHTNESS, c.CT_BRI_STEPS)
        mireds == inclusive_range(min_mired, max_mired, c.CT_MIRED_STEPS)
    IN  Concat([b \in 1..Len(bris) |->
                  [k \in 1..Len(mireds) |-> ColorTempVariation(bris[b], mireds[k])]])

hs_sat_major(c) ==
    LET bris == inclusive_range(c.MIN_BRIGHTNESS, c.MAX_BRIGHTNESS, c.HS_BRI_STEPS)
        sats == inclusive_range(c.MIN_SAT, c.MAX_SAT, c.HS_SAT_STEPS)
        hues == inclusive_range(c.MIN_HUE, c.MAX_HUE, c.HS_HUE_STEPS)
    IN  Concat([b \in 1..Len(bris) |->
          Concat([h \in 1..Len(hues) |->
                    [s \in 1..Len(sats) |-> HsVariation(bris[b], hues[h], sats[s])]])])

get_hs_variations(c) ==
    LET bris == inclusive_range(c.MIN_BRIGHTNESS, c.MAX_BRIGHTNESS, c.HS_BRI_STEPS)
        sats == inclusive_range(c.MIN_SAT, c.MAX_SAT, c.HS_SAT_STEPS)
        hues == inclusive_range(c.MIN_HUE, c.MAX_HUE, c.HS_HUE_STEPS)
    IN  Concat([b \in 1..Len(bris) |->
          Concat([s \in 1..Len(sats) |->
                    [h \in 1..Len(hues) |-> HsVariation(bris[b], hues[h], sats[s])]])])

generate(c, color_mode) ==
    IF color_mode = HS THEN get_hs_variations(c)
    ELSE IF color_mode = COLOR_TEMP THEN get_ct_variations(c)
    ELSE get_brightness_variations(c)

RECURSIVE trim_loop_inclusive(_, _, _)
trim_loop_inclusive(variations, include_variation, resume_at) ==
    IF variations = <<>> THEN <<>>
    ELSE LET variation == Head(variations)
             inc == include_variation \/ variation = resume_at
         IN  (IF inc THEN <<variation>> ELSE <<>>)
             \o trim_loop_inclusive(Tail(variations), inc, resume_at)

\* the resume loop of get_variations: yield once include_variation is set,
\* set it after the variation equal to resume_at was seen
RECURSIVE trim_loop(_, _, _)
trim_loop(variations, include_variation, resume_at) ==
    IF variations = <<>> THEN <<>>
    ELSE LET variation == Head(variations)
         IN  (IF include_variation THEN <<variation>> ELSE <<>>)
             \o trim_loop(Tail(variations),
                          include_variation \/ variation = resume_at, resume_at)

\* variant: the whole sweep is yielded also when resuming
get_variations_untrimmed(c, color_mode, resume_at) == generate(c, color_mode)

get_variations(c, color_mode, resume_at) ==
    IF resume_at # None
    THEN trim_loop(generate(c, color_mode), FALSE, resume_at)
    ELSE generate(c, color_mode)

----------------------------------------------------------------------------
(* CSV text: a line is a sequence of characters, a file a sequence of lines *)

DigitChars == <<"0", "1", "2", "3", "4", "5", "6", "7", "8", "9">>
IsDigit(ch) == \E d \in 1..10 : DigitChars[d] = ch
DigitVal(ch) == (CHOOSE d \in 1..10 : DigitChars[d] = ch) - 1

\* str() of a non-negative int
RECURSIVE NatToStr(_)
NatToStr(n) ==
    IF n < 10 THEN <<DigitChars[n + 1]>>
    ELSE NatToStr(n \div 10) \o <<DigitChars[(n % 10) + 1]>>

\* str() of an int
IntToStr(n) == IF n < 0 THEN <<"-">> \o NatToStr(0 - n) ELSE NatToStr(n)

\* str() of a float that was rounded to 2 decimals, given in hundredths:
\* 1000 -> 10.0, 525 -> 5.25, 550 -> 5.5, -50 -> -0.5
FloatToStr(centi) ==
    LET a == IF centi < 0 THEN 0 - centi ELSE centi
        frac == a % 100
        fracStr == IF frac % 10 = 0 THEN <<DigitChars[(frac \div 10) + 1]>>
                   ELSE <<DigitChars[(frac \div 10) + 1], DigitChars[(frac % 10) + 1]>>
    IN  (IF centi < 0 THEN <<"-">> ELSE <<>>) \o NatToStr(a \div 100) \o <<".">> \o fracStr

\* csv.writer: each field written with str(), None as the empty string
FieldToStr(f) ==
    IF f.t = "int" THEN IntToStr(f.v)
    ELSE IF f.t = "float" THEN FloatToStr(f.v)
    ELSE IF f.t = "str" THEN f.v
    ELSE <<>>

\* csv.writer.writerow: the fields joined by commas
RECURSIVE writerow(_)
writerow(row) ==
    IF row = <<>> THEN <<>>
    ELSE IF Len(row) = 1 THEN FieldToStr(row[1])
    ELSE FieldToStr(row[1]) \o <<",">> \o writerow(Tail(row))

\* csv.reader on one line: the fields between the commas
RECURSIVE split_loop(_, _)
split_loop(line, field) ==
    IF line = <<>> THEN <<field>>
    ELSE IF Head(line) = "," THEN <<field>> \o split_loop(Tail(line), <<>>)
    ELSE split_loop(Tail(line), Append(field, Head(line)))

readrow(line) == IF line = <<>> THEN <<>> ELSE split_loop(line, <<>>)

RECURSIVE digits_value(_, _)
digits_value(s, acc) ==
    IF s = <<>> THEN acc ELSE digits_value(Tail(s), acc * 10 + DigitVal(Head(s)))

IsIntLiteral(s) ==
    LET body == IF s # <<>> /\ Head(s) = "-" THEN Tail(s) ELSE s
    IN  body # <<>> /\ \A k \in 1..Len(body) : IsDigit(body[k])

\* int() of a string holding a valid literal
StrToInt(s) ==
    IF Head(s) = "-" THEN 0 - digits_value(Tail(s), 0) ELSE digits_value(s, 0)

CSV_HEADERS(color_mode) ==
    IF color_mode = HS
    THEN <<StrField(<<"b", "r", "i">>), StrField(<<"h", "u", "e">>),
           StrField(<<"s", "a", "t">>), StrField(<<"w", "a", "t", "t">>)>>
    ELSE IF color_mode = COLOR_TEMP
    THEN <<StrField(<<"b", "r", "i">>), StrField(<<"m", "i", "r", "e", "d">>),
           StrField(<<"w", "a", "t", "t">>)>>
    ELSE <<StrField(<<"b", "r", "i">>), StrField(<<"w", "a", "t", "t">>)>>

\* CsvWriter.__init__: the header row, if one is written
header_line(color_mode, add_datetime) ==
    writerow(CSV_HEADERS(color_mode)
             \o (IF add_datetime THEN <<StrField(<<"t", "i", "m", "e">>)>> ELSE <<>>))

measurement_row_power_first(variation, power, add_datetime, now) ==
    <<power>> \o to_csv_row(variation) \o (IF add_datetime THEN <<StrField(now)>> ELSE <<>>)

\* CsvWriter.write_measurement: the row that is written
measurement_row(variation, power, add_datetime, now) ==
    to_csv_row(variation) \o <<power>> \o (IF add_datetime THEN <<StrField(now)>> ELSE <<>>)

measurement_line(variation, power, add_datetime, now) ==
    writerow(measurement_row(variation, power, add_datetime, now))

----------------------------------------------------------------------------
(* Resume protocol *)

AbsentFile == [exists |-> FALSE, lines |-> <<>>]
FileOf(lines) == [exists |-> TRUE, lines |-> lines]

should_resume_ignoring_rows(file, RESUME, answer) ==
    IF ~file.exists THEN [result |-> FALSE, asked |-> FALSE]
    ELSE IF RESUME = "None" THEN [result |-> answer, asked |-> TRUE]
    ELSE [result |-> (RESUME = "True"), asked |-> FALSE]

\* should_resume: answer is what inquirer.confirm returns if it is asked.
\* A file of size 0 is a file without lines.
should_resume(file, RESUME, answer) ==
    IF ~file.exists THEN [result |-> FALSE, asked |-> FALSE]
    ELSE IF file.lines = <<>> THEN [result |-> FALSE, asked |-> FALSE]
    ELSE IF Len(file.lines) = 1 THEN [result |-> FALSE, asked |-> FALSE]
    ELSE IF RESUME = "None" THEN [result |-> answer, asked |-> TRUE]
    ELSE [result |-> (RESUME = "True"), asked |-> FALSE]

\* int(last_row[k]): IndexError / ValueError are reported as an Error record
int_at(last_row, k) ==
    IF k > Len(last_row) THEN [ok |-> FALSE, v |-> 0]
    ELSE IF ~IsIntLiteral(last_row[k]) THEN [ok |-> FALSE, v |-> 0]
    ELSE [ok |-> TRUE, v |-> StrToInt(last_row[k])]

Error == [cls |-> "Error"]

resume_variation_hs_columns_swapped(file, color_mode) ==
    LET last_row == readrow(file.lines[Len(file.lines)])
        a == int_at(last_row, 1)
        b == int_at(last_row, 2)
        c == int_at(last_row, 3)
    IN  IF color_mode = BRIGHTNESS
        THEN IF a.ok THEN Variation(a.v) ELSE Error
        ELSE IF color_mode = COLOR_TEMP
        THEN IF a.ok /\ b.ok THEN ColorTempVariation(a.v, b.v) ELSE Error
        ELSE IF a.ok /\ b.ok /\ c.ok THEN HsVariation(a.v, c.v, b.v) ELSE Error

\* get_resume_variation: the Variation encoded in the last row of the file
get_resume_variation(file, color_mode) ==
    LET last_row == readrow(file.lines[Len(file.lines)])
        a == int_at(last_row, 1)
        b == int_at(last_row, 2)
        c == int_at(last_row, 3)
    IN  IF color_mode = BRIGHTNESS
        THEN IF a.ok THEN Variation(a.v) ELSE Error
        ELSE IF color_mode = COLOR_TEMP
        THEN IF a.ok /\ b.ok THEN ColorTempVariation(a.v, b.v) ELSE Error
        ELSE IF a.ok /\ b.ok /\ c.ok THEN HsVariation(a.v, b.v, c.v) ELSE Error

----------------------------------------------------------------------------
(* Power measurement *)

\* round(x / n, 2) on hundredths, n > 0: nearest, ties to even
RoundDiv(x, n) ==
    LET q == x \div n
        r == x % n
    IN  IF 2 * r < n THEN q
        ELSE IF 2 * r > n THEN q + 1
        ELSE IF q % 2 = 0 THEN q ELSE q + 1

\* take_power_measurement: raw is the value measure_util.take_measurement returned
take_power_measurement(c, raw) ==
    RoundDiv(IF c.is_dummy_load_connected THEN raw - c.dummy_load_value ELSE raw,
             c.num_lights)

----------------------------------------------------------------------------
(* Session state *)

PyBool(b) == IF b THEN "True" ELSE "False"

MeasurementRunInput(color_mode, csv_file, variations, is_resuming) ==
    [color_mode |-> color_mode, csv_file |-> csv_file,
     variations |-> variations, is_resuming |-> is_resuming]

ClosedWriter == [open |-> FALSE, rows_written |-> 0, unflushed |-> 0]

LightUnknown == [state |-> "unknown", color_mode |-> BRIGHTNESS, v |-> None]
LightOff == [state |-> "off", color_mode |-> BRIGHTNESS, v |-> None]

\* variant: the head of the list is dropped, whatever x is (list.pop(0))
list_pop_first(list, x) == IF list = <<>> THEN <<>> ELSE Tail(list)

\* list.remove: the list without the first element equal to x
RECURSIVE list_remove(_, _)
list_remove(list, x) ==
    IF list = <<>> THEN <<>>
    ELSE IF Head(list) = x THEN Tail(list)
    ELSE <<Head(list)>> \o list_remove(Tail(list), x)

Contains(list, x) == \E k \in 1..Len(list) : list[k] = x

\* LightRunner.__init__ and the locals of run() before it starts
RunnerIdle ==
    /\ pc = "prepare"
    /\ num_0_readings = 0
    /\ measurements_to_run = <<>>
    /\ all_variations = <<>>
    /\ left_variations = <<>>
    /\ mi = 1
    /\ count = 0
    /\ previous_variation = None
    /\ nudge_count = 0
    /\ csv_writer = ClosedWriter
    /\ io = <<>>
    /\ asked = FALSE
    /\ error_log = {}
    /\ rows_appended = 0

PureIdle == fn = "none" /\ arg = <<>> /\ ret = <<>>

----------------------------------------------------------------------------
(* Inputs of the session: configuration, answers, light_info; the power meter *)

MaxNudges == 2
MaxInvocations == 2
MaxZeroFaults == 53

\* strftime("%Y%m%d%H%M%S") of the time of the write
Now == <<"2", "0", "2", "6", "0", "1", "0", "1", "1", "2", "0", "0", "0", "0">>

\* raw readings of the power meter, in hundredths of a watt
RawPowers == {1000}

BaseConfig ==
    [color_modes |-> <<BRIGHTNESS>>,
     MIN_BRIGHTNESS |-> 1, MAX_BRIGHTNESS |-> 255,
     BRI_BRI_STEPS |-> 127, HS_BRI_STEPS |-> 254, CT_BRI_STEPS |-> 254,
     MIN_SAT |-> 1, MAX_SAT |-> 254, HS_SAT_STEPS |-> 253,
     MIN_HUE |-> 1, MAX_HUE |-> 65535, HS_HUE_STEPS |-> 65534,
     min_mired |-> 1530, max_mired |-> 5000, CT_MIRED_STEPS |-> 347,
     RESUME |-> "None", MAX_NUDGES |-> 0, CSV_ADD_DATETIME_COLUMN |-> FALSE,
     gzip |-> TRUE, is_dummy_load_connected |-> FALSE, dummy_load_value |-> 0,
     num_lights |-> 1]

ResumePreferences == {"True", "False", "None"}

\* brightness mode, 1..255 in steps of 127
BrightnessConfigs ==
    {[BaseConfig EXCEPT !.MAX_NUDGES = n, !.CSV_ADD_DATETIME_COLUMN = t, !.gzip = ~t] :
        n \in 0..MaxNudges, t \in BOOLEAN}

\* hs and color_temp in either order, at one brightness
ColorConfigs ==
    {[BaseConfig EXCEPT !.color_modes = o, !.MIN_BRIGHTNESS = 255, !.MIN_SAT = 254,
                        !.MAX_NUDGES = n] :
        o \in {<<HS, COLOR_TEMP>>, <<COLOR_TEMP, HS>>}, n \in 0..MaxNudges}

\* a nudge budget larger than the zero-reading budget, short sweeps
BudgetConfigs ==
    {[BaseConfig EXCEPT !.color_modes = o, !.MIN_BRIGHTNESS = 255,
                        !.MIN_SAT = 254, !.min_mired = 5000,
                        !.MAX_NUDGES = MAX_ALLOWED_0_READINGS + 1] :
        o \in {<<HS, COLOR_TEMP>>, <<COLOR_TEMP, HS>>}}

NoFiles == [cm \in ColorModes |-> [exists |-> FALSE, lines |-> <<>>, gz |-> <<>>]]

----------------------------------------------------------------------------
(* run(): prepare_measurements_for_color_mode for each color mode *)

PrepareMeasurement(answer) ==
    /\ UNCHANGED error_log
    /\ pc = "prepare"
    /\ mi <= Len(cfg.color_modes)
    /\ LET color_mode == cfg.color_modes[mi]
           file == files[color_mode]
           sr == should_resume(file, cfg.RESUME, answer)
           resume_at == IF sr.result THEN get_resume_variation(file, color_mode) ELSE None
       IN  /\ asked' = sr.asked
           /\ IF resume_at = Error
              THEN /\ pc' = "raised"
                   /\ UNCHANGED <<measurements_to_run, mi>>
              ELSE /\ measurements_to_run' =
                        Append(measurements_to_run,
                               MeasurementRunInput(color_mode, color_mode,
                                   get_variations(cfg, color_mode, resume_at),
                                   PyBool(resume_at # None)))
                   /\ mi' = mi + 1
                   /\ pc' = IF mi = Len(cfg.color_modes) THEN "collect" ELSE "prepare"
    /\ io' = <<>>
    /\ UNCHANGED rows_appended
    /\ UNCHANGED <<cfg, files, num_0_readings, all_variations, left_variations, count,
                   previous_variation, nudge_count, csv_writer, light, invocation>>
    /\ UNCHANGED pureVars

\* variant: left_variations is the copy of the first measurement's variations
CollectFirstMeasurementOnly ==
    /\ UNCHANGED error_log
    /\ pc = "collect"
    /\ all_variations' =
           Concat([k \in 1..Len(measurements_to_run) |-> measurements_to_run[k].variations])
    /\ left_variations' = measurements_to_run[1].variations
    /\ mi' = 1
    /\ pc' = "run"
    /\ io' = <<>>
    /\ UNCHANGED rows_appended
    /\ UNCHANGED <<cfg, files, num_0_readings, measurements_to_run, count,
                   previous_variation, nudge_count, csv_writer, light, asked, invocation>>
    /\ UNCHANGED pureVars

\* run(): all_variations and left_variations
CollectVariations ==
    /\ UNCHANGED error_log
    /\ pc = "collect"
    /\ all_variations' =
           Concat([k \in 1..Len(measurements_to_run) |-> measurements_to_run[k].variations])
    /\ left_variations' = all_variations'
    /\ mi' = 1
    /\ pc' = "run"
    /\ io' = <<>>
    /\ UNCHANGED rows_appended
    /\ UNCHANGED <<cfg, files, num_0_readings, measurements_to_run, count,
                   previous_variation, nudge_count, csv_writer, light, asked, invocation>>
    /\ UNCHANGED pureVars

----------------------------------------------------------------------------
(* run_color_mode() *)

measurement_info == measurements_to_run[mi]
variations == measurement_info.variations
variation == variations[count + 1]

\* variant: the header row is written also when the file is opened with "a"
open_csv_always_header(file, info) ==
    IF info.is_resuming = "True"
    THEN [file EXCEPT !.exists = TRUE,
                      !.lines = Append(@, header_line(info.color_mode,
                                                      cfg.CSV_ADD_DATETIME_COLUMN))]
    ELSE [file EXCEPT !.exists = TRUE,
                      !.lines = <<header_line(info.color_mode, cfg.CSV_ADD_DATETIME_COLUMN)>>]

\* variant: the file is opened with "w" and gets a header also when resuming
open_csv_truncating(file, info) ==
    [file EXCEPT !.exists = TRUE,
                 !.lines = <<header_line(info.color_mode, cfg.CSV_ADD_DATETIME_COLUMN)>>]

\* open(csv_file, "w" | "a") and CsvWriter.__init__
open_csv(file, info) ==
    IF info.is_resuming = "True"
    THEN [file EXCEPT !.exists = TRUE]
    ELSE [file EXCEPT !.exists = TRUE,
                      !.lines = <<header_line(info.color_mode, cfg.CSV_ADD_DATETIME_COLUMN)>>]

\* lines 123-152: open the file, write the header, wait for the plug to settle
RunColorModeStart ==
    /\ UNCHANGED error_log
    /\ pc = "run"
    /\ mi <= Len(measurements_to_run)
    /\ files' = [files EXCEPT ![measurement_info.csv_file] = open_csv(@, measurement_info)]
    /\ csv_writer' = [open |-> TRUE, rows_written |-> 0,
                      unflushed |-> IF measurement_info.is_resuming = "True" THEN 0 ELSE 1]
    /\ light' = IF measurement_info.is_resuming = "None" THEN LightOff ELSE light
    /\ io' = <<"open">>
             \o (IF measurement_info.is_resuming = "True" THEN <<>> ELSE <<"header">>)
             \o (IF measurement_info.is_resuming = "None" THEN <<"off">> ELSE <<>>)
             \o <<"sleep_initial">>
    /\ previous_variation' = None
    /\ count' = 0
    /\ pc' = "loop"
    /\ UNCHANGED rows_appended
    /\ UNCHANGED <<cfg, num_0_readings, measurements_to_run, all_variations,
                   left_variations, mi, nudge_count, asked, invocation>>
    /\ UNCHANGED pureVars

\* variant: the extra waits follow any change of the channel (is_ct_changed,
\* is_sat_changed, is_hue_changed)
extra_waits_on_change(prev, v) ==
    (IF prev # None /\ v.cls = "ColorTempVariation" /\ v.ct # prev.ct
     THEN <<"sleep_ct">> ELSE <<>>)
    \o (IF prev # None /\ v.cls = "HsVariation" /\ v.sat # prev.sat
        THEN <<"sleep_sat">> ELSE <<>>)
    \o (IF prev # None /\ v.cls = "HsVariation" /\ v.hue # prev.hue
        THEN <<"sleep_hue">> ELSE <<>>)

\* lines 170-180: the extra waits after a decrease of ct, sat, hue
extra_waits(prev, v) ==
    (IF prev # None /\ v.cls = "ColorTempVariation" /\ v.ct < prev.ct
     THEN <<"sleep_ct">> ELSE <<>>)
    \o (IF prev # None /\ v.cls = "HsVariation" /\ v.sat < prev.sat
        THEN <<"sleep_sat">> ELSE <<>>)
    \o (IF prev # None /\ v.cls = "HsVariation" /\ v.hue < prev.hue
        THEN <<"sleep_hue">> ELSE <<>>)

\* lines 153-183: progress log, change_light_state, extra waits, base wait
ApplyVariation ==
    /\ UNCHANGED error_log
    /\ pc = "loop"
    /\ count < Len(variations)
    /\ light' = [state |-> "on", color_mode |-> measurement_info.color_mode, v |-> variation]
    /\ io' = (IF count % 10 = 0 THEN <<"progress">> ELSE <<>>)
             \o <<"apply">> \o extra_waits(previous_variation, variation) \o <<"sleep">>
    /\ previous_variation' = variation
    /\ pc' = "sample"
    /\ UNCHANGED rows_appended
    /\ UNCHANGED <<cfg, files, num_0_readings, measurements_to_run, all_variations,
                   left_variations, mi, count, nudge_count, csv_writer, asked, invocation>>
    /\ UNCHANGED pureVars

\* variant: the flush happens when rows_written is a multiple of CSV_WRITE_BUFFER
after_write_flush_on_multiple(w) ==
    [w EXCEPT !.rows_written = @ + 1,
              !.unflushed = IF (w.rows_written + 1) % CSV_WRITE_BUFFER = 0 THEN 0 ELSE @ + 1]

\* CsvWriter.write_measurement: rows_written and the flush every CSV_WRITE_BUFFER rows
after_write(w) ==
    [w EXCEPT !.rows_written = @ + 1,
              !.unflushed = IF (w.rows_written + 1) % CSV_WRITE_BUFFER = 1 THEN 0 ELSE @ + 1]

\* leaving the with block: the file is closed, what was buffered is on disk
CloseFile == csv_writer' = [csv_writer EXCEPT !.open = FALSE, !.unflushed = 0]

\* lines 200-202 and the next iteration: write the row, remove the variation
WriteAndContinue(power, events) ==
    /\ files' = [files EXCEPT ![measurement_info.csv_file].lines =
                    Append(@, measurement_line(variation, power,
                                               cfg.CSV_ADD_DATETIME_COLUMN, Now))]
    /\ IF Contains(left_variations, variation)
       THEN /\ left_variations' = list_remove(left_variations, variation)
            /\ csv_writer' = after_write(csv_writer)
            /\ count' = count + 1
            /\ pc' = "loop"
            /\ io' = events \o <<"write", "remove">>
       ELSE /\ csv_writer' = [after_write(csv_writer) EXCEPT !.open = FALSE, !.unflushed = 0]
            /\ pc' = "raised"
            /\ io' = events \o <<"write", "raise_value_error">>
            /\ UNCHANGED <<left_variations, count>>
    /\ rows_appended' = rows_appended + 1
    /\ UNCHANGED <<cfg, measurements_to_run, all_variations, mi, previous_variation,
                   asked, invocation>>
    /\ UNCHANGED pureVars

\* variant: the skipped variation is taken out of left_variations
SkipVariationRemoving(events) ==
    /\ count' = count + 1
    /\ pc' = "loop"
    /\ io' = events \o <<"remove">>
    /\ left_variations' = list_remove(left_variations, variation)
    /\ UNCHANGED rows_appended
    /\ UNCHANGED <<cfg, files, measurements_to_run, all_variations, mi,
                   previous_variation, csv_writer, asked, invocation>>
    /\ UNCHANGED pureVars

\* continue: the next iteration without a row
SkipVariation(events) ==
    /\ count' = count + 1
    /\ pc' = "loop"
    /\ io' = events
    /\ UNCHANGED rows_appended
    /\ UNCHANGED <<cfg, files, measurements_to_run, all_variations, left_variations, mi,
                   previous_variation, csv_writer, asked, invocation>>
    /\ UNCHANGED pureVars

\* return inside the with block: run() goes on with the next measurement
ReturnFromColorMode(events) ==
    /\ CloseFile
    /\ mi' = mi + 1
    /\ pc' = "run"
    /\ io' = events
    /\ UNCHANGED rows_appended
    /\ UNCHANGED <<cfg, files, measurements_to_run, all_variations, left_variations,
                   count, previous_variation, asked, invocation>>
    /\ UNCHANGED pureVars

\* an exception leaves run_color_mode() and run()
RaiseFromColorMode(events) ==
    /\ CloseFile
    /\ pc' = "raised"
    /\ io' = events
    /\ UNCHANGED rows_appended
    /\ UNCHANGED <<cfg, files, measurements_to_run, all_variations, left_variations, mi,
                   count, previous_variation, asked, invocation>>
    /\ UNCHANGED pureVars

\* the ZeroReadingError handlers: True when the budget is exceeded
too_many_0_readings(n) == n > MAX_ALLOWED_0_READINGS

\* line 185: take_power_measurement returns a value
MeasureOk(raw) ==
    /\ UNCHANGED error_log
    /\ pc = "sample"
    /\ WriteAndContinue(FloatField(take_power_measurement(cfg, raw)),
                        <<"sample", "log_power">>)
    /\ UNCHANGED <<num_0_readings, nudge_count, light>>

\* lines 186-187: OutdatedMeasurementError, enter nudge_and_remeasure
MeasureOutdated ==
    /\ UNCHANGED error_log
    /\ pc = "sample"
    /\ pc' = "nudge"
    /\ nudge_count' = 0
    /\ io' = <<"sample">>
    /\ UNCHANGED rows_appended
    /\ UNCHANGED <<cfg, files, num_0_readings, measurements_to_run, all_variations,
                   left_variations, mi, count, previous_variation, csv_writer, light,
                   asked, invocation>>
    /\ UNCHANGED pureVars

\* lines 188-196: ZeroReadingError
MeasureZero ==
    /\ pc = "sample"
    /\ num_0_readings < MaxZeroFaults
    /\ num_0_readings' = num_0_readings + 1
    /\ IF too_many_0_readings(num_0_readings')
       THEN /\ ReturnFromColorMode(<<"sample", "log_warning", "log_error">>)
            /\ error_log' = error_log \cup {"too_many_0_readings"}
       ELSE /\ SkipVariation(<<"sample", "log_warning">>)
            /\ UNCHANGED error_log
    /\ UNCHANGED <<nudge_count, light>>

\* lines 197-199: any other PowerMeterError
MeasureError ==
    /\ pc = "sample"
    /\ ReturnFromColorMode(<<"sample", "log_error">>)
    /\ error_log' = error_log \cup {"power_meter_error"}
    /\ UNCHANGED <<num_0_readings, nudge_count, light>>

----------------------------------------------------------------------------
(* nudge_and_remeasure() *)

\* lines 418-434 of one attempt, up to and including the sample
nudge_events(v) ==
    <<"log_warning", IF v.bri < 128 THEN "nudge_on_255" ELSE "nudge_off",
      "sleep_pulse", "apply", "sleep_nudge", "sample">>

NudgeAttempt ==
    /\ pc = "nudge"
    /\ nudge_count < cfg.MAX_NUDGES
    /\ light' = [state |-> "on", color_mode |-> measurement_info.color_mode, v |-> variation]

\* line 434: the sample succeeds, the caller records it
NudgeOk(raw) ==
    /\ UNCHANGED error_log
    /\ NudgeAttempt
    /\ WriteAndContinue(FloatField(take_power_measurement(cfg, raw)),
                        nudge_events(variation) \o <<"log_power">>)
    /\ UNCHANGED <<num_0_readings, nudge_count>>

\* lines 435-436: OutdatedMeasurementError, next attempt
NudgeOutdated ==
    /\ UNCHANGED error_log
    /\ NudgeAttempt
    /\ nudge_count' = nudge_count + 1
    /\ io' = nudge_events(variation)
    /\ UNCHANGED rows_appended
    /\ UNCHANGED <<cfg, files, pc, num_0_readings, measurements_to_run, all_variations,
                   left_variations, mi, count, previous_variation, csv_writer, asked,
                   invocation>>
    /\ UNCHANGED pureVars

\* lines 437-445: ZeroReadingError; over the budget None is returned to the
\* caller, which logs and records it as the power
NudgeZero ==
    /\ NudgeAttempt
    /\ num_0_readings < MaxZeroFaults
    /\ num_0_readings' = num_0_readings + 1
    /\ IF too_many_0_readings(num_0_readings')
       THEN /\ WriteAndContinue(NoneField,
                   nudge_events(variation) \o <<"log_warning", "log_error", "log_power">>)
            /\ error_log' = error_log \cup {"too_many_0_readings"}
            /\ UNCHANGED nudge_count
       ELSE /\ nudge_count' = nudge_count + 1
            /\ UNCHANGED error_log
            /\ io' = nudge_events(variation) \o <<"log_warning">>
            /\ UNCHANGED rows_appended
            /\ UNCHANGED <<cfg, files, pc, measurements_to_run, all_variations,
                           left_variations, mi, count, previous_variation, csv_writer,
                           asked, invocation>>
            /\ UNCHANGED pureVars

\* any other PowerMeterError is not caught in nudge_and_remeasure, and was
\* raised inside the caller's except clause
NudgeError ==
    /\ UNCHANGED error_log
    /\ NudgeAttempt
    /\ RaiseFromColorMode(nudge_events(variation) \o <<"raise_power_meter_error">>)
    /\ UNCHANGED <<num_0_readings, nudge_count>>

\* lines 446-448: the attempts are used up
NudgeExhausted ==
    /\ UNCHANGED error_log
    /\ pc = "nudge"
    /\ nudge_count >= cfg.MAX_NUDGES
    /\ RaiseFromColorMode(<<"raise_outdated">>)
    /\ UNCHANGED <<num_0_readings, nudge_count, light>>

----------------------------------------------------------------------------
(* the end of run_color_mode() and of run() *)

\* gzip_csv: a copy of the file
gzip_csv(file) == [file EXCEPT !.gz = file.lines]

\* lines 204-214
FinishColorMode ==
    /\ UNCHANGED error_log
    /\ pc = "loop"
    /\ count >= Len(variations)
    /\ CloseFile
    /\ light' = LightOff
    /\ files' = IF cfg.gzip
                THEN [files EXCEPT ![measurement_info.csv_file] = gzip_csv(@)]
                ELSE files
    /\ io' = <<"close", "log_finished", "off">> \o (IF cfg.gzip THEN <<"gzip">> ELSE <<>>)
    /\ mi' = mi + 1
    /\ pc' = "run"
    /\ UNCHANGED rows_appended
    /\ UNCHANGED <<cfg, num_0_readings, measurements_to_run, all_variations,
                   left_variations, count, previous_variation, nudge_count, asked,
                   invocation>>
    /\ UNCHANGED pureVars

\* run() line 93
RunReturn ==
    /\ UNCHANGED error_log
    /\ pc = "run"
    /\ mi > Len(measurements_to_run)
    /\ pc' = "done"
    /\ io' = <<>>
    /\ UNCHANGED rows_appended
    /\ UNCHANGED <<cfg, files, num_0_readings, measurements_to_run, all_variations,
                   left_variations, mi, count, previous_variation, nudge_count,
                   csv_writer, light, asked, invocation>>
    /\ UNCHANGED pureVars

\* the measure script is started again on the same export directory
NewInvocation(resume) ==
    /\ pc \in {"done", "raised"}
    /\ invocation < MaxInvocations
    /\ invocation' = invocation + 1
    /\ cfg' = [cfg EXCEPT !.RESUME = resume]
    /\ pc' = "prepare"
    /\ num_0_readings' = 0
    /\ measurements_to_run' = <<>>
    /\ all_variations' = <<>>
    /\ left_variations' = <<>>
    /\ mi' = 1
    /\ count' = 0
    /\ previous_variation' = None
    /\ nudge_count' = 0
    /\ csv_writer' = ClosedWriter
    /\ io' = <<>>
    /\ asked' = FALSE
    /\ error_log' = {}
    /\ rows_appended' = 0
    /\ UNCHANGED <<files, light>>
    /\ UNCHANGED pureVars

RunNext ==
    \/ \E answer \in BOOLEAN : PrepareMeasurement(answer)
    \/ CollectVariations
    \/ RunColorModeStart
    \/ ApplyVariation
    \/ \E raw \in RawPowers : MeasureOk(raw)
    \/ MeasureOutdated
    \/ MeasureZero
    \/ MeasureError
    \/ \E raw \in RawPowers : NudgeOk(raw)
    \/ NudgeOutdated
    \/ NudgeZero
    \/ NudgeError
    \/ NudgeExhausted
    \/ FinishColorMode
    \/ RunReturn

Next == RunNext \/ \E resume \in ResumePreferences : NewInvocation(resume)

Init ==
    /\ PureIdle
    /\ RunnerIdle
    /\ cfg \in BrightnessConfigs \cup ColorConfigs
    /\ files = NoFiles
    /\ light = LightUnknown
    /\ invocation = 1

Spec == Init /\ [][Next]_vars

InitBudget ==
    /\ PureIdle
    /\ RunnerIdle
    /\ cfg \in BudgetConfigs
    /\ files = NoFiles
    /\ light = LightUnknown
    /\ invocation = 1

SpecBudget == InitBudget /\ [][RunNext]_vars

----------------------------------------------------------------------------
(* The pure functions applied to enumerated arguments *)

RangeMax == 6
StepMax == 4

RunUnused ==
    /\ RunnerIdle
    /\ cfg = BaseConfig
    /\ files = NoFiles
    /\ light = LightUnknown
    /\ invocation = 1

CallInclusiveRange ==
    /\ fn = "input"
    /\ fn' = "inclusive_range"
    /\ ret' = inclusive_range(arg.start, arg.end, arg.step)
    /\ UNCHANGED arg
    /\ UNCHANGED runVars

InitRange ==
    /\ fn = "input"
    /\ arg \in [start : (0 - 2)..RangeMax, end : (0 - 2)..RangeMax, step : 1..StepMax]
    /\ ret = <<>>
    /\ RunUnused

SpecRange == InitRange /\ [][CallInclusiveRange]_vars

\* C1: for step > 0 and start <= end, inclusive_range(start, end, step) is
\* finite, starts at start, ends at end, holds end exactly once, never exceeds
\* end, is strictly increasing, and its elements before the last are exactly
\* the values start + k*step (k = 0, 1, ...) that are below end.
C1_InclusiveRange ==
    (fn = "inclusive_range" /\ arg.step > 0 /\ arg.start <= arg.end) =>
        /\ Len(ret) >= 1
        /\ ret[1] = arg.start
        /\ ret[Len(ret)] = arg.end
        /\ Cardinality({k \in 1..Len(ret) : ret[k] = arg.end}) = 1
        /\ \A k \in 1..Len(ret) : ret[k] <= arg.end
        /\ \A k \in 1..(Len(ret) - 1) : ret[k] < ret[k + 1]
        /\ \A k \in 1..(Len(ret) - 1) :
              ret[k] = arg.start + (k - 1) * arg.step /\ ret[k] < arg.end
        /\ arg.start + (Len(ret) - 1) * arg.step >= arg.end

\* a range that the step does not divide, with elements between start and end
C1_Witness ==
    /\ fn = "inclusive_range"
    /\ arg.start < arg.end
    /\ (arg.end - arg.start) % arg.step # 0
    /\ Len(ret) >= 3

----------------------------------------------------------------------------

GenConfigs ==
    {[BaseConfig EXCEPT !.MIN_BRIGHTNESS = b, !.MIN_SAT = sa, !.HS_HUE_STEPS = hs,
                        !.min_mired = mm, !.CT_MIRED_STEPS = ms] :
        b \in {1, 255}, sa \in {1, 254}, hs \in {65534, 40000},
        mm \in {1530, 1535, 5000}, ms \in {347, 200}}

ResumeCandidates ==
    {None}
    \cup {Variation(b) : b \in {1, 2, 128, 255}}
    \cup {HsVariation(b, h, sa) : b \in {1, 255}, h \in {1, 40001, 65535}, sa \in {1, 254}}
    \cup {ColorTempVariation(b, ct) : b \in {1, 255}, ct \in {153, 154, 353, 500}}

CallGetVariations ==
    /\ fn = "input"
    /\ fn' = "get_variations"
    /\ ret' = get_variations(arg.c, arg.color_mode, arg.resume_at)
    /\ UNCHANGED arg
    /\ UNCHANGED runVars

InitGen ==
    /\ fn = "input"
    /\ arg \in [c : GenConfigs, color_mode : ColorModes, resume_at : ResumeCandidates]
    /\ ret = <<>>
    /\ RunUnused

SpecGen == InitGen /\ [][CallGetVariations]_vars

\* C2: the generated sequence is brightness-major: for A emitted before B,
\* A.bri <= B.bri; in HS mode equal brightness gives A.sat <= B.sat and equal
\* brightness and saturation give A.hue <= B.hue; in color-temperature mode
\* equal brightness gives A.ct <= B.ct; and no variation is emitted twice.
C2_GeneratorOrdering ==
    (fn = "get_variations" /\ arg.resume_at = None) =>
        \A i \in 1..Len(ret) : \A j \in (i + 1)..Len(ret) :
            LET A == ret[i]
                B == ret[j]
            IN  /\ A # B
                /\ A.bri <= B.bri
                /\ arg.color_mode = HS =>
                      /\ A.bri = B.bri => A.sat <= B.sat
                      /\ (A.bri = B.bri /\ A.sat = B.sat) => A.hue <= B.hue
                /\ arg.color_mode = COLOR_TEMP =>
                      (A.bri = B.bri => A.ct <= B.ct)

\* an HS sweep over two brightness, two saturation and three hue values
C2_Witness ==
    /\ fn = "get_variations"
    /\ arg.resume_at = None
    /\ arg.color_mode = HS
    /\ Len(ret) = 12

\* C3: with a resume point get_variations yields exactly the variations
\* strictly after the first generated variation equal to it, nothing if no
\* generated variation equals it; without a resume point the full sequence.
C3_SequenceTrimming ==
    fn = "get_variations" =>
        LET full == generate(arg.c, arg.color_mode)
            hits == {k \in 1..Len(full) : full[k] = arg.resume_at}
        IN  IF arg.resume_at = None THEN ret = full
            ELSE IF hits = {} THEN ret = <<>>
            ELSE LET first == CHOOSE k \in hits : \A h \in hits : k <= h
                 IN  ret = SubSeq(full, first + 1, Len(full))

\* a resume point in the middle of the sweep
C3_Witness ==
    /\ fn = "get_variations"
    /\ arg.resume_at # None
    /\ Len(ret) >= 1
    /\ \E k \in 2..Len(generate(arg.c, arg.color_mode)) :
          generate(arg.c, arg.color_mode)[k] = arg.resume_at

----------------------------------------------------------------------------

CsvVariations ==
    {Variation(b) : b \in {0, 1, 9, 10, 128, 255}}
    \cup {HsVariation(b, h, sa) : b \in {1, 255}, h \in {1, 100, 65535}, sa \in {1, 254}}
    \cup {ColorTempVariation(b, ct) : b \in {1, 255}, ct \in {153, 500}}

CsvPowers ==
    {FloatField(1000), FloatField(525), FloatField(0 - 50), FloatField(0), NoneField}

\* the rows already in the file: the header, or the header and a measurement
PriorLines(v, add_datetime) ==
    {<<header_line(get_color_mode(v), add_datetime)>>,
     <<header_line(get_color_mode(v), add_datetime),
       measurement_line(v, FloatField(330), add_datetime, Now)>>}

CallWriteMeasurement ==
    /\ fn = "input"
    /\ fn' = "write_measurement"
    /\ ret' = [lines |-> Append(arg.prior,
                                measurement_line(arg.variation, arg.power,
                                                 arg.add_datetime, Now)),
               resume_at |-> None]
    /\ UNCHANGED arg
    /\ UNCHANGED runVars

CallGetResumeVariation ==
    /\ fn = "write_measurement"
    /\ fn' = "get_resume_variation"
    /\ ret' = [ret EXCEPT !.resume_at =
                  get_resume_variation(FileOf(ret.lines), get_color_mode(arg.variation))]
    /\ UNCHANGED arg
    /\ UNCHANGED runVars

InitCsv ==
    /\ fn = "input"
    /\ \E v \in CsvVariations, p \in CsvPowers, t \in BOOLEAN :
          \E prior \in PriorLines(v, t) :
              arg = [variation |-> v, power |-> p, add_datetime |-> t, prior |-> prior]
    /\ ret = <<>>
    /\ RunUnused

SpecCsv == InitCsv /\ [][CallWriteMeasurement \/ CallGetResumeVariation]_vars

\* C4: after write_measurement(V, power) wrote the last row, get_resume_variation
\* with V's color mode returns a variation equal to V, whatever the power and
\* whether or not there is a time column.
C4_RoundTrip ==
    fn = "get_resume_variation" => ret.resume_at = arg.variation

\* an HS variation written with a negative power and a time column, read back
C4_Witness ==
    /\ fn = "get_resume_variation"
    /\ arg.variation = HsVariation(255, 65535, 1)
    /\ arg.power = FloatField(0 - 50)
    /\ arg.add_datetime
    /\ Len(ret.lines) = 3

----------------------------------------------------------------------------

ResumeFiles ==
    {AbsentFile, FileOf(<<>>)}
    \cup {FileOf(SubSeq(<<header_line(get_color_mode(v), t),
                          measurement_line(v, FloatField(1000), t, Now),
                          measurement_line(v, NoneField, t, Now)>>, from, to)) :
            v \in {Variation(1), HsVariation(1, 1, 254), ColorTempVariation(255, 153)},
            t \in BOOLEAN, from \in 1..2, to \in 1..3}

CallShouldResume ==
    /\ fn = "input"
    /\ fn' = "should_resume"
    /\ ret' = should_resume(arg.file, arg.RESUME, arg.answer)
    /\ UNCHANGED arg
    /\ UNCHANGED runVars

InitResume ==
    /\ fn = "input"
    /\ arg \in [file : ResumeFiles, RESUME : ResumePreferences, answer : BOOLEAN]
    /\ ret = <<>>
    /\ RunUnused

SpecResume == InitResume /\ [][CallShouldResume]_vars

\* C6: should_resume is false, without asking, when the file does not exist,
\* is empty or holds one row; otherwise it is the forced preference when one is
\* set, without asking, and the interactive answer when none is set.
C6_ShouldResume ==
    fn = "should_resume" =>
        IF ~arg.file.exists \/ Len(arg.file.lines) <= 1
        THEN ret.result = FALSE /\ ~ret.asked
        ELSE IF arg.RESUME = "None"
        THEN ret.result = arg.answer /\ ret.asked
        ELSE ret.result = (arg.RESUME = "True") /\ ~ret.asked

\* a header-only file with the preference forced to resume: not resumed
C6_Witness ==
    /\ fn = "should_resume"
    /\ arg.file.exists
    /\ Len(arg.file.lines) = 1
    /\ arg.RESUME = "True"
    /\ ret.result = FALSE

----------------------------------------------------------------------------
(* Resuming a dataset that an earlier invocation left behind *)

\* what run_color_mode can have recorded as the power of a row
RecordedPowers ==
    {FloatField(take_power_measurement(cfg, raw)) : raw \in RawPowers} \cup {NoneField}

\* line is a data row of variation v
RowEncodes(line, v) ==
    \E p \in RecordedPowers :
        line = measurement_line(v, p, cfg.CSV_ADD_DATETIME_COLUMN, Now)

\* v has a data row in the dataset of its color mode
HasRow(v) ==
    LET lines == files[get_color_mode(v)].lines
    IN  \E k \in 2..Len(lines) : RowEncodes(lines[k], v)

InSeq(list, x) == \E k \in 1..Len(list) : list[k] = x

\* the measurements are prepared and no file was touched by this invocation
Prepared == pc = "collect"

Resumed(k) == measurements_to_run[k].is_resuming = "True"

\* C5 as stated: after resuming a dataset, the trimmed sequence holds exactly
\* the variations of the full sweep that have no row yet.
C5_ResumeYieldsAllUnrecorded ==
    Prepared =>
        \A k \in 1..Len(measurements_to_run) :
            Resumed(k) =>
                LET full == generate(cfg, measurements_to_run[k].color_mode)
                IN  \A i \in 1..Len(full) :
                        InSeq(measurements_to_run[k].variations, full[i]) <=> ~HasRow(full[i])

\* C5 amended: the resume point is the variation of the last row, and the
\* trimmed sequence is the full sweep strictly after it; no variation with a
\* row is in it, and every variation generated after the last row's is.
C5_ResumeYieldsSuffixAfterLastRow ==
    Prepared =>
        \A k \in 1..Len(measurements_to_run) :
            Resumed(k) =>
                LET full == generate(cfg, measurements_to_run[k].color_mode)
                    lines == files[measurements_to_run[k].color_mode].lines
                IN  \E j \in 1..Len(full) :
                        /\ RowEncodes(lines[Len(lines)], full[j])
                        /\ measurements_to_run[k].variations = SubSeq(full, j + 1, Len(full))
                        /\ \A i \in 1..Len(full) : HasRow(full[i]) => i <= j

\* a resumed HS dataset with rows, and variations left to measure
C5_Witness ==
    /\ Prepared
    /\ \E k \in 1..Len(measurements_to_run) :
          /\ Resumed(k)
          /\ measurements_to_run[k].color_mode = HS
          /\ Len(measurements_to_run[k].variations) >= 1
          /\ Len(files[HS].lines) >= 2

----------------------------------------------------------------------------
(* Faults of the power meter *)

\* a step that sends a variation or a nudge state to the light, samples the
\* power meter or writes a row
Activity(events) ==
    \E k \in 1..Len(events) :
        events[k] \in {"apply", "nudge_on_255", "nudge_off", "sample", "write"}

\* C7 as stated: every zero-reading fault raises the counter by exactly one and
\* nothing else changes it; while it is 50 or less the run goes on (next
\* variation or next nudge attempt), and the fault that makes it 51 ends the
\* color-mode run without a row for the variation.
C7_ZeroFaultBudget ==
    [][num_0_readings' # num_0_readings =>
          /\ num_0_readings' = num_0_readings + 1
          /\ IF num_0_readings' > MAX_ALLOWED_0_READINGS
             THEN pc' \in {"run", "raised"} /\ ~InSeq(io', "write")
             ELSE pc' \in {"loop", "nudge"}]_vars

\* C8 as stated: once the counter exceeds 50 nothing more is applied, sampled
\* or written in this invocation, and the fault that exceeds it writes no row.
C8_NoActivityAfterBudgetExceeded ==
    [][/\ num_0_readings > MAX_ALLOWED_0_READINGS => ~Activity(io')
       /\ num_0_readings' > MAX_ALLOWED_0_READINGS => ~InSeq(io', "write")]_vars

\* C9 as stated: a stale reading that outlasts the nudge attempts stops only
\* the current color mode, so the invocation does not end while a scheduled
\* color mode has not been run.
C9_StaleAbortStopsOnlyColorMode ==
    (pc = "raised" /\ InSeq(io, "raise_outdated")) => mi >= Len(measurements_to_run)

\* C10 as stated: after a power-meter fault that is neither stale nor zero
\* nothing more is applied, nudged, sampled or written in this invocation.
C10_GenericFaultAbortsRun ==
    [][("power_meter_error" \in error_log) => ~Activity(io')]_vars

----------------------------------------------------------------------------
(* left_variations, the remaining-set of the time estimate *)

\* the last line of the dataset of the color mode being run
LastLine(fs) ==
    LET lines == fs[measurement_info.csv_file].lines IN lines[Len(lines)]

\* "remove" directly follows "write" in the events of a step
RemoveFollowsWrite(events) ==
    \E k \in 1..(Len(events) - 1) : events[k] = "write" /\ events[k + 1] = "remove"

\* a step of the variation loop or of nudge_and_remeasure
InLoop == pc \in {"loop", "sample", "nudge"}

\* C11: in every state the number of variations removed from left_variations
\* equals the number of rows written in this invocation; a step of the loop
\* removes a variation exactly when it writes a row, the removal directly
\* follows the write, the row is the row of the removed variation, and the
\* removed variation was in left_variations and is no longer.
C11_RemovalsMatchRows ==
    /\ [](Len(all_variations) - Len(left_variations) = rows_appended)
    /\ [][InLoop =>
            /\ InSeq(io', "write") <=> left_variations' # left_variations
            /\ InSeq(io', "write") <=> InSeq(io', "remove")
            /\ InSeq(io', "write") =>
                  /\ RemoveFollowsWrite(io')
                  /\ rows_appended' = rows_appended + 1
                  /\ RowEncodes(LastLine(files'), variation)
                  /\ InSeq(left_variations, variation)
                  /\ ~InSeq(left_variations', variation)
                  /\ Len(left_variations') = Len(left_variations) - 1]_vars

\* two rows written and removed after an earlier variation was skipped
C11_Witness ==
    /\ rows_appended = 2
    /\ num_0_readings >= 1
    /\ Len(all_variations) - Len(left_variations) = 2
    /\ InSeq(io, "remove")

\* run_color_mode has just returned after the last variation of its sweep
Finished == pc = "run" /\ InSeq(io, "log_finished")

\* the sweep of the color-mode run that returned last
finished_variations == measurements_to_run[mi - 1].variations

\* a step that goes on with the next variation without writing a row
SkipStep == pc = "sample" /\ pc' = "loop" /\ ~InSeq(io', "write")

----------------------------------------------------------------------------
(* The light around a color-mode run *)

\* event a comes before event b in the events of a step
Before(events, a, b) ==
    \E k \in 1..Len(events) : \E j \in (k + 1)..Len(events) :
        events[k] = a /\ events[j] = b

\* C13 as stated: in every color-mode run the light is commanded off before
\* the initial wait, and it is still off when the first variation is applied.
C13_PowerOffBeforeFirstVariation ==
    /\ [](InSeq(io, "sleep_initial") => Before(io, "off", "sleep_initial"))
    /\ [][(pc = "loop" /\ count = 0 /\ InSeq(io', "apply")) => light = LightOff]_vars

\* run_color_mode has just been left by an exception
Raised ==
    pc = "raised" /\ (InSeq(io, "raise_outdated") \/ InSeq(io, "raise_power_meter_error"))

\* run_color_mode has just been left: after the loop, by return, or by an exception
Ended == (pc = "run" /\ mi > 1) \/ Raised

\* the dataset of the color-mode run that was left last
ended_file == files[measurements_to_run[IF Raised THEN mi ELSE mi - 1].csv_file]

\* C14 as stated: when a color-mode run has ended, after its last variation
\* or on an abort, the light is commanded off and, if compression is
\* configured, the compressed copy holds the dataset.
C14_RunEndsOffAndCompressed ==
    Ended => /\ light = LightOff
             /\ cfg.gzip => ended_file.gz = ended_file.lines

----------------------------------------------------------------------------
(* A sweep longer than CSV_WRITE_BUFFER rows *)

LongZeroFaults == 1

\* brightness mode, 1..255 in steps of 4: 65 variations
LongConfigs == {[BaseConfig EXCEPT !.BRI_BRI_STEPS = 4, !.MAX_NUDGES = 1]}

InitLong ==
    /\ PureIdle
    /\ RunnerIdle
    /\ cfg \in LongConfigs
    /\ files = NoFiles
    /\ light = LightUnknown
    /\ invocation = 1

\* one invocation in which the power meter reports at most LongZeroFaults zero readings
NextLong ==
    \/ \E answer \in BOOLEAN : PrepareMeasurement(answer)
    \/ CollectVariations
    \/ RunColorModeStart
    \/ ApplyVariation
    \/ \E raw \in RawPowers : MeasureOk(raw)
    \/ MeasureOutdated
    \/ num_0_readings < LongZeroFaults /\ MeasureZero
    \/ MeasureError
    \/ \E raw \in RawPowers : NudgeOk(raw)
    \/ NudgeOutdated
    \/ num_0_readings < LongZeroFaults /\ NudgeZero
    \/ NudgeError
    \/ NudgeExhausted
    \/ FinishColorMode
    \/ RunReturn

SpecLong == InitLong /\ [][NextLong]_vars

\* C15: at every point of a color-mode run at most 49 rows written by the
\* writer have not been flushed.
C15_FlushStaleness == csv_writer.unflushed <= 49

\* 50 rows written, the 49 after the first are not flushed yet
C15_Witness ==
    /\ csv_writer.open
    /\ csv_writer.rows_written = CSV_WRITE_BUFFER
    /\ csv_writer.unflushed = 49

----------------------------------------------------------------------------
(* Leaving the variation loop *)

\* a step that leaves run_color_mode before the last variation was processed
StopsEarly == pc \in {"sample", "nudge"} /\ pc' \in {"run", "raised"}

\* C16 as stated: a step of the loop leaves run_color_mode early only after
\* an error record in the same step, and an error record is emitted only by a
\* step that leaves run_color_mode.
C16_AbortsAreLogged ==
    [][InLoop => (StopsEarly <=> InSeq(io', "log_error"))]_vars

\* the lines of every dataset other than the one being written are as before
OtherFilesUntouched ==
    \A cm \in ColorModes :
        cm # measurement_info.csv_file => files'[cm].lines = files[cm].lines

\* the lines of the dataset being written, before and after the step
lines_before == files[measurement_info.csv_file].lines
lines_after == files'[measurement_info.csv_file].lines

\* C17: whenever no color-mode run is active (it ended after its last
\* variation, by return or by an exception) the file is closed with nothing
\* left in the buffer; opening a dataset to resume keeps its lines; a step of
\* the run either leaves the lines as they are or appends the row of the
\* current variation at the end; no other dataset is touched.
C17_PartialDatasetsSurvive ==
    /\ [](~InLoop => ~csv_writer.open /\ csv_writer.unflushed = 0)
    /\ [][(pc = "run" /\ pc' = "loop") =>
            /\ measurement_info.is_resuming = "True" => lines_after = lines_before
            /\ OtherFilesUntouched]_vars
    /\ [][InLoop =>
            /\ OtherFilesUntouched
            /\ IF InSeq(io', "write")
               THEN /\ Len(lines_after) = Len(lines_before) + 1
                    /\ SubSeq(lines_after, 1, Len(lines_before)) = lines_before
                    /\ RowEncodes(lines_after[Len(lines_after)], variation)
               ELSE lines_after = lines_before]_vars

\* a resumed run that wrote a row after the older ones and was left by an exception
C17_Witness ==
    /\ Raised
    /\ measurement_info.is_resuming = "True"
    /\ csv_writer.rows_written >= 1
    /\ ~csv_writer.open
    /\ Len(ended_file.lines) >= 3

----------------------------------------------------------------------------
(* A complete sweep, and resuming it *)

\* the dataset holds the header and one row per generated variation, in
\* generator order
Complete(color_mode) ==
    LET full == generate(cfg, color_mode)
        lines == files[color_mode].lines
    IN  /\ Len(lines) = Len(full) + 1
        /\ lines[1] = header_line(color_mode, cfg.CSV_ADD_DATETIME_COLUMN)
        /\ \A k \in 1..Len(full) : RowEncodes(lines[k + 1], full[k])

\* the rows 1,10.0 / 128,10.0 / 255,10.0
ExampleRows ==
    << <<"1", ",", "1", "0", ".", "0">>,
       <<"1", "2", "8", ",", "1", "0", ".", "0">>,
       <<"2", "5", "5", ",", "1", "0", ".", "0">> >>

\* C18: a fresh run_color_mode that processed its last variation in an
\* invocation without zero readings leaves a complete dataset (for brightness
\* 1..255 in steps of 127 without the time column: the rows 1,10.0 128,10.0
\* 255,10.0); when a later invocation with RESUME forced prepares a complete
\* dataset, the resume point is the last generated variation and the scheduled
\* sequence is empty; a run with an empty sequence writes nothing.
C18_CompleteSweepAndResume ==
    /\ []((Finished /\ num_0_readings = 0
              /\ measurements_to_run[mi - 1].is_resuming = "False") =>
            LET color_mode == measurements_to_run[mi - 1].color_mode
            IN  /\ Complete(color_mode)
                /\ (color_mode = BRIGHTNESS /\ ~cfg.CSV_ADD_DATETIME_COLUMN) =>
                      Tail(files[color_mode].lines) = ExampleRows)
    /\ []((Prepared /\ cfg.RESUME = "True") =>
            \A k \in 1..Len(measurements_to_run) :
                LET color_mode == measurements_to_run[k].color_mode
                    full == generate(cfg, color_mode)
                IN  (files[color_mode].exists /\ Complete(color_mode)) =>
                        /\ get_resume_variation(files[color_mode], color_mode)
                               = full[Len(full)]
                        /\ Resumed(k)
                        /\ measurements_to_run[k].variations = <<>>)
    /\ [][(InLoop /\ variations = <<>>) =>
            /\ pc = "loop" /\ pc' = "run"
            /\ lines_after = lines_before
            /\ UNCHANGED rows_appended]_vars

\* the second invocation, RESUME forced, finished its run on the complete
\* brightness dataset of the first: nothing scheduled, the three rows as before
C18_Witness ==
    /\ invocation = 2
    /\ cfg.RESUME = "True"
    /\ cfg.color_modes = <<BRIGHTNESS>>
    /\ ~cfg.CSV_ADD_DATETIME_COLUMN
    /\ Finished
    /\ measurements_to_run[1].is_resuming = "True"
    /\ measurements_to_run[1].variations = <<>>
    /\ rows_appended = 0
    /\ Len(files[BRIGHTNESS].lines) = 4
    /\ Tail(files[BRIGHTNESS].lines) = ExampleRows

----------------------------------------------------------------------------
(* The header row *)

\* line is the header row of the color mode, with or without the time column
IsHeader(line, color_mode) ==
    \E t \in BOOLEAN : line = header_line(color_mode, t)

\* C19: a run that does not resume replaces the dataset by its header row; a
\* run that resumes writes no header and keeps the lines; every dataset that
\* exists starts with the header row and holds no other header row.
C19_OneHeaderFirst ==
    /\ [][(pc = "run" /\ pc' = "loop") =>
            IF measurement_info.is_resuming = "True"
            THEN ~InSeq(io', "header") /\ lines_after = lines_before
            ELSE /\ InSeq(io', "header")
                 /\ lines_after = <<header_line(measurement_info.color_mode,
                                                cfg.CSV_ADD_DATETIME_COLUMN)>>]_vars
    /\ [](\A cm \in ColorModes :
            files[cm].exists =>
                /\ Len(files[cm].lines) >= 1
                /\ files[cm].lines[1] = header_line(cm, cfg.CSV_ADD_DATETIME_COLUMN)
                /\ \A k \in 2..Len(files[cm].lines) : ~IsHeader(files[cm].lines[k], cm))

\* a dataset written by a fresh run and then by a resumed run that added a row
C19_Witness ==
    /\ invocation = 2
    /\ pc = "done"
    /\ measurements_to_run[1].is_resuming = "True"
    /\ csv_writer.rows_written >= 1
    /\ Len(files[measurements_to_run[1].color_mode].lines) >= 3
    /\ Len(measurements_to_run) = 1

----------------------------------------------------------------------------
(* The order of a step and its extra waits *)

\* hs and color_temp sweeps over two brightness values: 8 and 4 variations
SettleConfigs ==
    {[BaseConfig EXCEPT !.color_modes = o, !.MAX_NUDGES = 1] :
        o \in {<<HS, COLOR_TEMP>>, <<COLOR_TEMP, HS>>}}

InitSettle ==
    /\ PureIdle
    /\ RunnerIdle
    /\ cfg \in SettleConfigs
    /\ files = NoFiles
    /\ light = LightUnknown
    /\ invocation = 1

SpecSettle == InitSettle /\ [][RunNext]_vars

\* the channels of v whose value is lower than in u
Decreased(u, v) ==
    {ch \in (DOMAIN v \cap DOMAIN u) \ {"cls", "bri"} : v[ch] < u[ch]}

\* the waits of the decreased channels, in the order ct, sat, hue
SettleWaits(channels) ==
    LET Needed(e) == \/ e = "sleep_ct" /\ "ct" \in channels
                     \/ e = "sleep_sat" /\ "sat" \in channels
                     \/ e = "sleep_hue" /\ "hue" \in channels
    IN  SelectSeq(<<"sleep_ct", "sleep_sat", "sleep_hue">>, Needed)

\* the events of a step without its progress record
WithoutProgress(events) ==
    IF events # <<>> /\ events[1] = "progress" THEN Tail(events) ELSE events

\* C20: the step of the loop that takes the next variation applies it with
\* on = true, then waits for exactly the channels (ct, sat, hue) that are lower
\* than in the variation before it in the loop, whether that one was recorded
\* or skipped, then waits the base wait, and only then is the power sampled;
\* there is no extra wait for the first variation of a color-mode run; the
\* first sample of a variation is the first event of the step after its base
\* wait, and every sample is taken with the light at that variation.
C20_StepOrderAndSettling ==
    /\ [][(pc = "loop" /\ count < Len(variations)) =>
            /\ WithoutProgress(io') =
                   <<"apply">>
                   \o (IF count = 0 THEN <<>>
                       ELSE SettleWaits(Decreased(variations[count], variation)))
                   \o <<"sleep">>
            /\ light' = [state |-> "on", color_mode |-> measurement_info.color_mode,
                         v |-> variation]
            /\ pc' = "sample"]_vars
    /\ [][pc' = "sample" => pc = "loop" /\ io'[Len(io')] = "sleep"]_vars
    /\ [][InSeq(io', "sample") =>
            /\ pc \in {"sample", "nudge"}
            /\ pc = "sample" => io'[1] = "sample" /\ light.v = variation
            /\ pc = "nudge" => Before(io', "apply", "sample") /\ light'.v = variation]_vars

\* the fifth hs variation (bri 255, sat 1, hue 1) applied after the fourth
\* (bri 1, sat 254, hue 65535) was skipped for a zero reading: both waits
C20_Witness ==
    /\ pc = "sample"
    /\ count = 4
    /\ io = <<"apply", "sleep_sat", "sleep_hue", "sleep">>
    /\ variation = HsVariation(255, 1, 1)
    /\ ~HasRow(variations[4])
    /\ HasRow(variations[3])

----------------------------------------------------------------------------
(* nudge_and_remeasure seen from its caller *)

\* the number of times event e occurs in the events of a step
RECURSIVE Occurrences(_, _)
Occurrences(events, e) ==
    IF events = <<>> THEN 0
    ELSE (IF Head(events) = e THEN 1 ELSE 0) + Occurrences(Tail(events), e)

\* the row written last carries a power that a successful sample gives
LastRowNumeric(fs) ==
    \E raw \in RawPowers :
        LastLine(fs) = measurement_line(variation,
                                        FloatField(take_power_measurement(cfg, raw)),
                                        cfg.CSV_ADD_DATETIME_COLUMN, Now)

\* C21 as stated: nudge_and_remeasure makes at most MAX_NUDGES attempts; an
\* attempt sends the nudge state (on at 255 when the target brightness is
\* below 128, else off), re-applies the target with on = true, waits the nudge
\* wait and samples once; a successful sample is returned and recorded by the
\* caller; a zero reading raises the counter and moves on to the next attempt,
\* as does a stale reading; a generic fault is raised; with the attempts used
\* up the stale-reading fault is raised.
C21_NudgeAndRemeasure ==
    /\ [](pc = "nudge" => nudge_count <= cfg.MAX_NUDGES)
    /\ [][(pc = "nudge" /\ InSeq(io', "sample")) =>
            /\ nudge_count < cfg.MAX_NUDGES
            /\ io'[2] = (IF variation.bri < 128 THEN "nudge_on_255" ELSE "nudge_off")
            /\ io'[4] = "apply" /\ io'[5] = "sleep_nudge" /\ io'[6] = "sample"
            /\ Occurrences(io', "sample") = 1
            /\ light' = [state |-> "on", color_mode |-> measurement_info.color_mode,
                         v |-> variation]
            /\ \/ /\ num_0_readings' = num_0_readings
                  /\ pc' = "loop" /\ InSeq(io', "write") /\ LastRowNumeric(files')
               \/ /\ num_0_readings' \in {num_0_readings, num_0_readings + 1}
                  /\ pc' = "nudge" /\ nudge_count' = nudge_count + 1
                  /\ ~InSeq(io', "write")
               \/ /\ num_0_readings' = num_0_readings
                  /\ pc' = "raised" /\ InSeq(io', "raise_power_meter_error")]_vars
    /\ [][(pc = "nudge" /\ ~InSeq(io', "sample")) =>
            /\ nudge_count >= cfg.MAX_NUDGES
            /\ pc' = "raised" /\ InSeq(io', "raise_outdated")]_vars

\* line is a row of a generated variation with the power of a successful sample
NumericRow(line, color_mode) ==
    LET full == generate(cfg, color_mode)
    IN  \E k \in 1..Len(full) : \E raw \in RawPowers :
            line = measurement_line(full[k],
                                    FloatField(take_power_measurement(cfg, raw)),
                                    cfg.CSV_ADD_DATETIME_COLUMN, Now)

\* C22 as stated: every data row of every dataset carries the power of a
\* successful sample, and a row is written only by a step whose sample
\* succeeded: not by a step with a zero reading or an error record.
C22_RowsCarryMeasuredPower ==
    /\ [](\A cm \in ColorModes :
            \A k \in 2..Len(files[cm].lines) : NumericRow(files[cm].lines[k], cm))
    /\ [][InSeq(io', "write") =>
            /\ LastRowNumeric(files')
            /\ num_0_readings' = num_0_readings
            /\ ~InSeq(io', "log_error")]_vars

----------------------------------------------------------------------------
(* The dataset over several invocations *)

\* the data rows of the dataset of the color mode are rows of generated
\* variations, each of one variation only, in generator order and without a
\* variation in two rows
RowsInGeneratorOrder(color_mode) ==
    LET full == generate(cfg, color_mode)
        lines == files[color_mode].lines
        rows == [a \in 1..Len(full) |->
                    {measurement_line(full[a], p, cfg.CSV_ADD_DATETIME_COLUMN, Now) :
                        p \in RecordedPowers}]
        at == [i \in 1..Len(lines) |-> {a \in 1..Len(full) : lines[i] \in rows[a]}]
    IN  /\ \A i \in 2..Len(lines) : Cardinality(at[i]) = 1
        /\ \A i \in 2..(Len(lines) - 1) :
              \A a \in at[i] : \A b \in at[i + 1] : a < b

\* C23: after a fresh run and any resumed invocations, with skips and aborts,
\* the data rows of every dataset are in generator order and no variation has
\* two rows.
C23_RowsAreSubsequence ==
    \A cm \in ColorModes : files[cm].exists => RowsInGeneratorOrder(cm)

\* the first invocation recorded bri 1 and was aborted; the second resumed,
\* skipped 128 for a zero reading and recorded 255
C23_Witness ==
    /\ invocation = 2
    /\ cfg.color_modes = <<BRIGHTNESS>>
    /\ pc = "done"
    /\ measurements_to_run[1].is_resuming = "True"
    /\ num_0_readings = 1
    /\ rows_appended = 1
    /\ Len(files[BRIGHTNESS].lines) = 3
    /\ RowEncodes(files[BRIGHTNESS].lines[2], Variation(1))
    /\ RowEncodes(files[BRIGHTNESS].lines[3], Variation(255))

----------------------------------------------------------------------------
(* measure_standby_power() *)

\* num_0_readings as a run() before the standby measurement can have left it
StandbyZeroCounts == {0, MAX_ALLOWED_0_READINGS - 1, MAX_ALLOWED_0_READINGS}

StandbyConfigs ==
    {[BaseConfig EXCEPT !.MAX_NUDGES = n, !.num_lights = l,
                        !.is_dummy_load_connected = d, !.dummy_load_value = 200] :
        n \in 0..MaxNudges, l \in {1, 2}, d \in BOOLEAN}

\* the placeholder passed to nudge_and_remeasure
StandbyVariation == Variation(0)

\* what measure_standby_power does not touch
standbyUnused == <<arg, cfg, files, measurements_to_run, all_variations, left_variations,
                   mi, count, previous_variation, csv_writer, asked, rows_appended,
                   invocation>>

\* lines 581-587: switch the light off and wait
StandbyOff ==
    /\ pc = "standby"
    /\ light' = LightOff
    /\ io' = <<"off", "sleep_standby">>
    /\ pc' = "standby_sample"
    /\ UNCHANGED <<fn, ret, num_0_readings, nudge_count, error_log>>
    /\ UNCHANGED standbyUnused

\* line 589: the sample is returned
StandbySampleOk(raw) ==
    /\ pc = "standby_sample"
    /\ ret' = FloatField(take_power_measurement(cfg, raw))
    /\ io' = <<"sample">>
    /\ pc' = "standby_returned"
    /\ UNCHANGED <<fn, light, num_0_readings, nudge_count, error_log>>
    /\ UNCHANGED standbyUnused

\* lines 590-591: OutdatedMeasurementError, enter nudge_and_remeasure
StandbySampleOutdated ==
    /\ pc = "standby_sample"
    /\ nudge_count' = 0
    /\ io' = <<"sample">>
    /\ pc' = "standby_nudge"
    /\ UNCHANGED <<fn, ret, light, num_0_readings, error_log>>
    /\ UNCHANGED standbyUnused

\* lines 592-598: ZeroReadingError, 0 is returned
StandbySampleZero ==
    /\ pc = "standby_sample"
    /\ ret' = IntField(0)
    /\ io' = <<"sample", "log_error">>
    /\ error_log' = error_log \cup {"standby_0_watt"}
    /\ pc' = "standby_returned"
    /\ UNCHANGED <<fn, light, num_0_readings, nudge_count>>
    /\ UNCHANGED standbyUnused

\* any other PowerMeterError is not caught
StandbySampleError ==
    /\ pc = "standby_sample"
    /\ io' = <<"sample", "raise_power_meter_error">>
    /\ pc' = "standby_raised"
    /\ UNCHANGED <<fn, ret, light, num_0_readings, nudge_count, error_log>>
    /\ UNCHANGED standbyUnused

\* nudge_and_remeasure(ColorMode.BRIGHTNESS, Variation(0)): one attempt up to
\* and including its sample
StandbyNudgeAttempt ==
    /\ pc = "standby_nudge"
    /\ nudge_count < cfg.MAX_NUDGES
    /\ light' = [state |-> "on", color_mode |-> BRIGHTNESS, v |-> StandbyVariation]

\* line 591: the value nudge_and_remeasure returns is dropped, the function
\* ends without a return statement
StandbyNudgeOk(raw) ==
    /\ StandbyNudgeAttempt
    /\ ret' = NoneField
    /\ io' = nudge_events(StandbyVariation)
    /\ pc' = "standby_returned"
    /\ UNCHANGED <<fn, num_0_readings, nudge_count, error_log>>
    /\ UNCHANGED standbyUnused

\* lines 435-436
StandbyNudgeOutdated ==
    /\ StandbyNudgeAttempt
    /\ nudge_count' = nudge_count + 1
    /\ io' = nudge_events(StandbyVariation)
    /\ UNCHANGED <<fn, ret, pc, num_0_readings, error_log>>
    /\ UNCHANGED standbyUnused

\* lines 437-445: over the budget nudge_and_remeasure returns None
StandbyNudgeZero ==
    /\ StandbyNudgeAttempt
    /\ num_0_readings < MaxZeroFaults
    /\ num_0_readings' = num_0_readings + 1
    /\ IF too_many_0_readings(num_0_readings')
       THEN /\ ret' = NoneField
            /\ io' = nudge_events(StandbyVariation) \o <<"log_warning", "log_error">>
            /\ error_log' = error_log \cup {"too_many_0_readings"}
            /\ pc' = "standby_returned"
            /\ UNCHANGED nudge_count
       ELSE /\ nudge_count' = nudge_count + 1
            /\ io' = nudge_events(StandbyVariation) \o <<"log_warning">>
            /\ UNCHANGED <<ret, pc, error_log>>
    /\ UNCHANGED fn
    /\ UNCHANGED standbyUnused

\* any other PowerMeterError leaves nudge_and_remeasure and measure_standby_power
StandbyNudgeError ==
    /\ StandbyNudgeAttempt
    /\ io' = nudge_events(StandbyVariation) \o <<"raise_power_meter_error">>
    /\ pc' = "standby_raised"
    /\ UNCHANGED <<fn, ret, num_0_readings, nudge_count, error_log>>
    /\ UNCHANGED standbyUnused

\* lines 446-448: the attempts are used up
StandbyNudgeExhausted ==
    /\ pc = "standby_nudge"
    /\ nudge_count >= cfg.MAX_NUDGES
    /\ io' = <<"raise_outdated">>
    /\ pc' = "standby_raised"
    /\ UNCHANGED <<fn, ret, light, num_0_readings, nudge_count, error_log>>
    /\ UNCHANGED standbyUnused

NextStandby ==
    \/ StandbyOff
    \/ \E raw \in RawPowers : StandbySampleOk(raw)
    \/ StandbySampleOutdated
    \/ StandbySampleZero
    \/ StandbySampleError
    \/ \E raw \in RawPowers : StandbyNudgeOk(raw)
    \/ StandbyNudgeOutdated
    \/ StandbyNudgeZero
    \/ StandbyNudgeError
    \/ StandbyNudgeExhausted

InitStandby ==
    /\ fn = "measure_standby_power"
    /\ arg = <<>>
    /\ ret = <<>>
    /\ pc = "standby"
    /\ num_0_readings \in StandbyZeroCounts
    /\ cfg \in StandbyConfigs
    /\ measurements_to_run = <<>>
    /\ all_variations = <<>>
    /\ left_variations = <<>>
    /\ mi = 1
    /\ count = 0
    /\ previous_variation = None
    /\ nudge_count = 0
    /\ csv_writer = ClosedWriter
    /\ io = <<>>
    /\ asked = FALSE
    /\ error_log = {}
    /\ rows_appended = 0
    /\ files = NoFiles
    /\ light \in {LightUnknown, LightOff}
    /\ invocation = 1

SpecStandby == InitStandby /\ [][NextStandby]_vars

\* measure_standby_power has returned through its first sample
ReturnedFirstSample == pc = "standby_sample" /\ pc' = "standby_returned"

\* measure_standby_power has returned after nudge_and_remeasure
ReturnedAfterNudge == pc = "standby_nudge" /\ pc' = "standby_returned"

\* C24 as stated: measure_standby_power returns a number whenever it
\* returns: the sample, 0 after a zero reading of the first sample, and the
\* re-measured value after a stale first sample; and each sample is taken
\* with the light last commanded off.
C24_StandbyReturnsWattage ==
    /\ [](pc = "standby_returned" => ret.t \in {"int", "float"})
    /\ [][ReturnedFirstSample =>
            IF InSeq(io', "log_error")
            THEN ret' = IntField(0)
            ELSE \E raw \in RawPowers :
                    ret' = FloatField(take_power_measurement(cfg, raw))]_vars
    /\ [][ReturnedAfterNudge =>
            \E raw \in RawPowers : ret' = FloatField(take_power_measurement(cfg, raw))]_vars
    /\ [][InSeq(io', "sample") =>
            IF pc = "standby_sample" THEN light = LightOff ELSE light' = LightOff]_vars

----------------------------------------------------------------------------
(* left_variations against all_variations *)

\* sub is list with some elements left out, the order kept
RECURSIVE IsSubList(_, _)
IsSubList(sub, list) ==
    IF sub = <<>> THEN TRUE
    ELSE IF list = <<>> THEN FALSE
    ELSE IF Head(sub) = Head(list) THEN IsSubList(Tail(sub), Tail(list))
    ELSE IsSubList(sub, Tail(list))

\* C25: a step that records a variation finds it in left_variations, so the
\* removal does not raise; no variation is scheduled twice, and variations of
\* different color modes are never equal; left_variations is a sub-list of
\* all_variations; a progress record is computed only with all_variations not
\* empty.
C25_RemovalNeverFails ==
    /\ [][InSeq(io', "write") =>
            /\ InSeq(left_variations, variation)
            /\ ~InSeq(io', "raise_value_error")]_vars
    /\ [](\A i, j \in 1..Len(all_variations) :
            /\ i # j => all_variations[i] # all_variations[j]
            /\ get_color_mode(all_variations[i]) # get_color_mode(all_variations[j])
                  => all_variations[i] # all_variations[j])
    /\ [](IsSubList(left_variations, all_variations))
    /\ [][InSeq(io', "progress") => Len(all_variations) > 0]_vars

\* a variation of the second color mode was recorded and removed after rows of
\* the first
C25_Witness ==
    /\ Len(measurements_to_run) = 2
    /\ mi = 2
    /\ pc = "loop"
    /\ InSeq(io, "remove")
    /\ rows_appended >= 2
    /\ Len(left_variations) = Len(all_variations) - rows_appended

====
